---- MODULE Spec2Model ----
(***************************************************************************)
(* Workiwi: the chat client (src/client/src/App.tsx) and the chat API      *)
(* (src/server/server.js).                                                 *)
(*                                                                         *)
(* A JavaScript string is modelled as a sequence of one-character strings. *)
(* Fixed literals of the source that no operation looks into (prompt       *)
(* labels, the diagnostic message, mock data) are one-element sequences    *)
(* holding an English gloss of the literal in parentheses.                 *)
(***************************************************************************)
EXTENDS Integers, Sequences, FiniteSets, TLC

VARIABLES
    \* --- client state (App.tsx:117-134) ---
    messages,       \* useState<Message[]>
    inputMessage,   \* useState<string>
    selectedAgent,  \* useState<AgentType>
    docs,           \* useState<Document[]>
    activeTab,      \* useState<string>
    selectedDoc,    \* useState<Document | null>
    \* --- environment ---
    now,            \* the value Date.now() returns
    requests,       \* one entry per handleSendMessage call that reached fetch
    \* --- a single call of buildSystemInstruction (server.js:37) ---
    settings,       \* its first argument
    agentType,      \* its second argument
    instruction     \* its outcome

vars == <<messages, inputMessage, selectedAgent, docs, activeTab, selectedDoc,
          now, requests, settings, agentType, instruction>>

clientVars == <<messages, inputMessage, selectedAgent, docs, activeTab, selectedDoc>>
promptVars == <<settings, agentType, instruction>>

(***************************************************************************)
(* Bounds                                                                  *)
(***************************************************************************)
MaxPieces == 4      \* pieces an enumerated message text is made of
MaxSaves == 2       \* saveToDocs calls in one behaviour
MaxSends == 2       \* fetches issued in one behaviour
MaxTicks == 1       \* clock ticks in one behaviour
MaxPrior == 6       \* completed sends of an enumerated earlier conversation
MaxStrLen == 1      \* characters of an enumerated ruleset string
MaxStack == 2       \* entries of an enumerated tech stack

(***************************************************************************)
(* Strings                                                                 *)
(***************************************************************************)
NL == "\n"

\* the characters String.prototype.trim removes that can occur inside a line
IsSpace(c) == c \in {" ", "\t", "\r"}

Digits == {"0", "1", "2", "3", "4", "5", "6", "7", "8", "9"}

RECURSIVE trimStart(_)
trimStart(s) ==
    IF s = <<>> THEN <<>>
    ELSE IF IsSpace(Head(s)) THEN trimStart(Tail(s))
    ELSE s

RECURSIVE trimEnd(_)
trimEnd(s) ==
    IF s = <<>> THEN <<>>
    ELSE IF IsSpace(s[Len(s)]) THEN trimEnd(SubSeq(s, 1, Len(s) - 1))
    ELSE s

\* String.prototype.trim
trim(s) == trimEnd(trimStart(s))

\* String.prototype.startsWith
startsWith(s, p) == Len(s) >= Len(p) /\ SubSeq(s, 1, Len(p)) = p

\* String.prototype.includes
includes(s, p) ==
    \E i \in 1..(Len(s) - Len(p) + 1) : SubSeq(s, i, i + Len(p) - 1) = p

\* String.prototype.split with a one-character separator: always at least
\* one piece, the pieces never contain the separator
RECURSIVE split(_, _)
split(s, sep) ==
    IF \A i \in 1..Len(s) : s[i] # sep THEN <<s>>
    ELSE LET k == CHOOSE i \in 1..Len(s) :
                      s[i] = sep /\ \A j \in 1..(i - 1) : s[j] # sep
         IN  <<SubSeq(s, 1, k - 1)>> \o split(SubSeq(s, k + 1, Len(s)), sep)

\* line.replace(/#/g, ''): every occurrence of the character is removed
RECURSIVE replaceAll(_, _)
replaceAll(s, c) ==
    IF s = <<>> THEN <<>>
    ELSE IF Head(s) = c THEN replaceAll(Tail(s), c)
    ELSE <<Head(s)>> \o replaceAll(Tail(s), c)

\* line.match(/^\d\./)
matchDigitDot(s) == Len(s) >= 2 /\ s[1] \in Digits /\ s[2] = "."

\* Array.prototype.join
RECURSIVE join(_, _)
join(a, sep) ==
    IF a = <<>> THEN <<>>
    ELSE IF Len(a) = 1 THEN a[1]
    ELSE a[1] \o sep \o join(Tail(a), sep)

(***************************************************************************)
(* saveToDocs: the block parser (App.tsx:210-215)                          *)
(***************************************************************************)
\* the literal '모드]' (three characters; the two Hangul syllables are
\* written "mo" and "deu" here)
ModeTag == <<"mo", "deu", "]">>

NonBlank(line) == trim(line) # <<>>

\* the split without the filter
linesUnfiltered(text) == split(text, NL)

\* msg.text.split('\n').filter(line => line.trim() !== '')
lines(text) == SelectSeq(split(text, NL), NonBlank)

\* a callback that tests the list markers before the heading markers
BlockOfListFirst(line) ==
    IF startsWith(line, <<"-">>) \/ matchDigitDot(line)
    THEN [type |-> "list", content |-> line]
    ELSE IF startsWith(line, <<"#">>) \/ includes(line, ModeTag)
    THEN [type |-> "heading", content |-> trim(replaceAll(line, "#"))]
    ELSE [type |-> "paragraph", content |-> line]

\* a callback that keeps the '#' characters of a heading
BlockOfKeepMarker(line) ==
    IF startsWith(line, <<"#">>) \/ includes(line, ModeTag)
    THEN [type |-> "heading", content |-> trim(line)]
    ELSE IF startsWith(line, <<"-">>) \/ matchDigitDot(line)
    THEN [type |-> "list", content |-> line]
    ELSE [type |-> "paragraph", content |-> line]

\* the callback of lines.map
BlockOf(line) ==
    IF startsWith(line, <<"#">>) \/ includes(line, ModeTag)
    THEN [type |-> "heading", content |-> trim(replaceAll(line, "#"))]
    ELSE IF startsWith(line, <<"-">>) \/ matchDigitDot(line)
    THEN [type |-> "list", content |-> line]
    ELSE [type |-> "paragraph", content |-> line]

jsonBlocks(text) ==
    LET ls == lines(text) IN [i \in 1..Len(ls) |-> BlockOf(ls[i])]

(***************************************************************************)
(* Client data (App.tsx:41-79, 125-134)                                    *)
(***************************************************************************)
AgentTypes == {"PM", "DEV", "DESIGNER"}

\* Date.now() when the page is loaded: far above the literal ids 1 and 2
PageLoad == 10

\* Date.now() in the first state of a behaviour
StartNow == 100

\* new Date().toLocaleDateString()
toLocaleDateString(t) == ToString(t)

GreetingText == <<"(greeting of the Dev agent)">>

\* the text of errorMessage
ErrorText == <<"(server connection failed, check that the backend is running)">>

\* the initial value of messages; a user message has no agentType field
INITIAL_MESSAGES ==
    << [id |-> 1, sender |-> "ai", text |-> GreetingText,
        agentType |-> "DEV", timestamp |-> PageLoad] >>

INITIAL_DOCS ==
    << [id |-> 1, title |-> <<"(spec: TeamSync AI)">>, type |-> "SPEC",
        date |-> "2023-10-25",
        content |-> [version |-> "1.0",
                     blocks |-> << [type |-> "heading", content |-> <<"(project goal)">>],
                                   [type |-> "paragraph", content |-> <<"(a single AI context per team)">>],
                                   [type |-> "heading", content |-> <<"(core features)">>],
                                   [type |-> "list", content |-> <<"- (agents per role)", NL, "- (ruleset management)", NL, "- (JSON documents)">>] >>]],
       [id |-> 2, title |-> <<"(DB schema draft)">>, type |-> "TECH",
        date |-> "2023-10-23",
        content |-> [version |-> "1.0", blocks |-> <<>>]] >>

\* selectedDoc = null
Null == [null |-> TRUE]

\* the ids of the sidebar's navigation items
Tabs == {"dashboard", "docs", "chat", "settings"}

\* what the user can type into the textarea
InputTexts == { <<>>, <<" ">>, <<"h", "i">> }

\* what the generation backend can answer
ReplyTexts == { <<"#", " ", "T", NL, "-", " ", "x">> }

(***************************************************************************)
(* saveToDocs (App.tsx:209-231)                                            *)
(***************************************************************************)
\* a save that numbers the new document with the length of the list
saveToDocsIdOfLength(msg) ==
    LET newDoc == [id |-> Len(docs),
                   title |-> <<"(AI chat record) (", msg.agentType, ") - ",
                               toLocaleDateString(now)>>,
                   type |-> "MEMO",
                   date |-> toLocaleDateString(now),
                   content |-> [version |-> "1.0",
                                blocks |-> jsonBlocks(msg.text)]]
    IN  /\ docs' = <<newDoc>> \o docs
        /\ activeTab' = "docs"
        /\ selectedDoc' = newDoc

\* a save that puts the new document in the place of the first one:
\* setDocs([newDoc, ...docs.slice(1)])
saveToDocsReplacing(msg) ==
    LET newDoc == [id |-> Len(docs) + 1,
                   title |-> <<"(AI chat record) (", msg.agentType, ") - ",
                               toLocaleDateString(now)>>,
                   type |-> "MEMO",
                   date |-> toLocaleDateString(now),
                   content |-> [version |-> "1.0",
                                blocks |-> jsonBlocks(msg.text)]]
    IN  /\ docs' = <<newDoc>> \o Tail(docs)
        /\ activeTab' = "docs"
        /\ selectedDoc' = newDoc

saveToDocs(msg) ==
    LET newDoc == [id |-> Len(docs) + 1,
                   title |-> <<"(AI chat record) (", msg.agentType, ") - ",
                               toLocaleDateString(now)>>,
                   type |-> "MEMO",
                   date |-> toLocaleDateString(now),
                   content |-> [version |-> "1.0",
                                blocks |-> jsonBlocks(msg.text)]]
    IN  /\ docs' = <<newDoc>> \o docs
        /\ activeTab' = "docs"
        /\ selectedDoc' = newDoc

\* the save button of an ai message in ChatView (App.tsx:392-401)
SaveToDocs(i) ==
    /\ activeTab = "chat"
    /\ Len(docs) < Len(INITIAL_DOCS) + MaxSaves
    /\ i \in 1..Len(messages)
    /\ messages[i].sender = "ai"
    /\ saveToDocs(messages[i])
    /\ UNCHANGED <<messages, inputMessage, selectedAgent, now, requests>>
    /\ UNCHANGED promptVars

(***************************************************************************)
(* buildSystemInstruction (server.js:28-71)                                *)
(***************************************************************************)
\* A property of a JavaScript object: present with a value, or undefined
Some(v) == [def |-> TRUE, v |-> v]
Undefined == [def |-> FALSE, v |-> <<>>]

\* `${x}` in a template literal: a string as it is, undefined as the word
Interpolate(x) ==
    IF x.def THEN x.v ELSE <<"u", "n", "d", "e", "f", "i", "n", "e", "d">>

MOCK_PROJECT_SETTINGS ==
    [techStack |-> Some(<< <<"React">>, <<"Tailwind CSS">>, <<"Node.js">>, <<"Supabase">> >>),
     convention |-> Some(<<"(functional components, strict error handling, comments)">>),
     tone |-> Some(<<"(kind and logical)">>),
     customInstructions |-> Some(<<"(explain so that a beginner understands)">>)]

\* a join that leaves out the space after the comma
StackSeparatorComma == <<",">>

\* the separator of settings.techStack.join(', ')
StackSeparator == <<",", " ">>

\* the switch over agentType (server.js:55-68)
DefaultDirective == <<"(answer diligently for the success of the project)">>

PMDirective == <<"(focus on minutes, schedule, intent; propose structured documents)">>
DEVDirective == <<"(avoid libraries outside the tech stack; production-level code)">>
DESIGNERDirective == <<"(usability first; suggest styles as Tailwind CSS classes)">>

\* a switch that compares the agent type without regard to case
roleSpecificPromptAnyCase(agent) ==
    CASE agent \in {"PM", "pm"} -> PMDirective
      [] agent \in {"DEV", "dev"} -> DEVDirective
      [] agent \in {"DESIGNER", "designer"} -> DESIGNERDirective
      [] OTHER -> DefaultDirective

roleSpecificPrompt(agent) ==
    CASE agent = "PM" -> PMDirective
      [] agent = "DEV" -> DEVDirective
      [] agent = "DESIGNER" -> DESIGNERDirective
      [] OTHER -> DefaultDirective

RoleHeader == <<NL, NL, "[(role directives)]", NL>>

\* the outcome of a call: a returned string or a thrown TypeError
Returned(v) == [state |-> "returned", value |-> v]
Threw == [state |-> "threw", value |-> <<>>]
NotCalled == [state |-> "none", value |-> <<>>]

basePrompt(s, agent) ==
    <<NL, "(you are the AI agent in the role) '">> \o <<agent>>
    \o <<"' (follow the ruleset)", NL, NL, "[(tech stack)]", NL>>
    \o join(s.techStack.v, StackSeparator)
    \o <<NL, NL, "[(coding convention)]", NL>> \o Interpolate(s.convention)
    \o <<NL, NL, "[(tone and manner)]", NL>> \o Interpolate(s.tone)
    \o <<NL, NL, "[(additional instructions)]", NL>> \o Interpolate(s.customInstructions)
    \o <<NL>>

\* undefined.join(...) raises a TypeError
buildSystemInstruction(s, agent) ==
    IF ~s.techStack.def THEN Threw
    ELSE Returned(basePrompt(s, agent) \o RoleHeader \o roleSpecificPrompt(agent))

(***************************************************************************)
(* handleSendMessage up to the fetch (App.tsx:147-175)                     *)
(***************************************************************************)
\* JSON.stringify of a Message: the fields that are present, the Date as a
\* string
toJSON(m) == [m EXCEPT !.timestamp = ToString(m.timestamp)]

NoResponse == [status |-> 0]
NoChat == [started |-> FALSE]

\* setInputMessage(e.target.value)
TypeInput ==
    /\ activeTab = "chat"
    /\ \E t \in InputTexts : t # inputMessage /\ inputMessage' = t
    /\ UNCHANGED <<messages, selectedAgent, docs, activeTab, selectedDoc, now, requests>>
    /\ UNCHANGED promptVars

\* setSelectedAgent(role)
SelectAgent ==
    /\ activeTab = "chat"
    /\ \E role \in AgentTypes : role # selectedAgent /\ selectedAgent' = role
    /\ UNCHANGED <<messages, inputMessage, docs, activeTab, selectedDoc, now, requests>>
    /\ UNCHANGED promptVars

\* a body whose history is cut to the last ten messages
requestBodyWindowed ==
    [projectId |-> 1,
     message |-> inputMessage,
     agentType |-> selectedAgent,
     history |-> LET n == Len(messages)
                     d == IF n > 10 THEN n - 10 ELSE 0
                 IN  [i \in 1..(n - d) |-> toJSON(messages[d + i])]]

\* the body of the POST; history is the messages of the render that made
\* the call, before newMessage
requestBody ==
    [projectId |-> 1,
     message |-> inputMessage,
     agentType |-> selectedAgent,
     history |-> [i \in 1..Len(messages) |-> toJSON(messages[i])]]

\* if (!inputMessage.trim()) return
HandleSendBlank ==
    /\ activeTab = "chat"
    /\ trim(inputMessage) = <<>>
    /\ UNCHANGED vars

HandleSendMessage ==
    /\ activeTab = "chat"
    /\ trim(inputMessage) # <<>>
    /\ Len(requests) < MaxSends
    /\ LET newMessage == [id |-> now, sender |-> "user",
                          text |-> inputMessage, timestamp |-> now]
       IN  messages' = Append(messages, newMessage)
    /\ inputMessage' = <<>>
    /\ requests' = Append(requests,
            [body |-> requestBody,
             selectedAgent |-> selectedAgent,   \* captured by the closure
             fetches |-> 1,                     \* calls of fetch so far
             response |-> NoResponse,
             chat |-> NoChat,
             flow |-> "AwaitingReply",
             userTurn |-> Len(messages) + 1,    \* position of newMessage
             turns |-> <<>>])                   \* positions of the turns appended after the await
    /\ UNCHANGED <<selectedAgent, docs, activeTab, selectedDoc, now>>
    /\ UNCHANGED promptVars

(***************************************************************************)
(* app.post('/api/chat') (server.js:79-124)                                *)
(***************************************************************************)
\* model.startChat({ history: history || [] }) and chat.sendMessage(message):
\* what the generation backend is handed
startChat(body, systemInstruction) ==
    [started |-> TRUE,
     systemInstruction |-> systemInstruction,
     history |-> body.history,
     message |-> body.message]

\* the try block runs to res.json (the timestamp of the reply, which the
\* client never reads, is left out)
ChatRouteReply ==
    \E i \in 1..Len(requests) :
       LET r == requests[i]
           si == buildSystemInstruction(MOCK_PROJECT_SETTINGS, r.body.agentType)
       IN  /\ r.flow = "AwaitingReply"
           /\ r.response = NoResponse
           /\ si.state = "returned"
           /\ \E text \in ReplyTexts :
                 requests' = [requests EXCEPT
                    ![i].chat = startChat(r.body, si.value),
                    ![i].response = [status |-> 200, ok |-> TRUE,
                                     data |-> [reply |-> text,
                                               agentType |-> r.body.agentType]]]
           /\ UNCHANGED <<messages, inputMessage, selectedAgent, docs, activeTab, selectedDoc, now>>
           /\ UNCHANGED promptVars

ErrorResponse ==
    [status |-> 500, ok |-> FALSE,
     data |-> [error |-> <<"(an error occurred while generating the AI response)">>]]

\* the catch block: buildSystemInstruction or the backend threw
ChatRouteError ==
    \E i \in 1..Len(requests) :
       LET r == requests[i]
           si == buildSystemInstruction(MOCK_PROJECT_SETTINGS, r.body.agentType)
       IN  /\ r.flow = "AwaitingReply"
           /\ r.response = NoResponse
           /\ requests' = [requests EXCEPT
                 ![i].chat = IF si.state = "returned"
                             THEN startChat(r.body, si.value) ELSE NoChat,
                 ![i].response = ErrorResponse]
           /\ UNCHANGED <<messages, inputMessage, selectedAgent, docs, activeTab, selectedDoc, now>>
           /\ UNCHANGED promptVars

(***************************************************************************)
(* handleSendMessage after the await (App.tsx:177-206)                     *)
(***************************************************************************)
\* data.agentType || selectedAgent
OrElse(a, b) == IF a # "" THEN a ELSE b

\* the rest of the try block
ReceiveReply ==
    \E i \in 1..Len(requests) :
       LET r == requests[i]
           aiResponse == [id |-> now + 1, sender |-> "ai",
                          text |-> r.response.data.reply,
                          agentType |-> OrElse(r.response.data.agentType, r.selectedAgent),
                          timestamp |-> now]
       IN  /\ r.flow = "AwaitingReply"
           /\ r.response # NoResponse
           /\ r.response.ok
           /\ messages' = Append(messages, aiResponse)
           /\ requests' = [requests EXCEPT
                 ![i].flow = "Replied",
                 ![i].turns = Append(r.turns, Len(messages) + 1)]
           /\ UNCHANGED <<inputMessage, selectedAgent, docs, activeTab, selectedDoc, now>>
           /\ UNCHANGED promptVars

\* a catch block that shows the diagnostic and issues the request once more
catchRetrying(i) ==
    LET errorMessage == [id |-> now, sender |-> "ai", text |-> ErrorText,
                         agentType |-> "DEV", timestamp |-> now]
        again == requests[i].fetches < 2
    IN  /\ messages' = Append(messages, errorMessage)
        /\ requests' = [requests EXCEPT
              ![i].flow = IF again THEN "AwaitingReply" ELSE "Failed",
              ![i].fetches = IF again THEN @ + 1 ELSE @,
              ![i].response = IF again THEN NoResponse ELSE @,
              ![i].turns = Append(requests[i].turns, Len(messages) + 1)]

\* a catch block that appends to the messages its closure captured, not to
\* the current ones: setMessages([...messages, errorMessage])
catchStale(i) ==
    LET errorMessage == [id |-> now, sender |-> "ai", text |-> ErrorText,
                         agentType |-> "DEV", timestamp |-> now]
        captured == SubSeq(messages, 1, requests[i].userTurn - 1)
    IN  /\ messages' = Append(captured, errorMessage)
        /\ requests' = [requests EXCEPT
              ![i].flow = "Failed",
              ![i].turns = Append(requests[i].turns, Len(captured) + 1)]

\* a catch block whose errorMessage has no agentType
catchUntagged(i) ==
    LET errorMessage == [id |-> now, sender |-> "ai", text |-> ErrorText,
                         timestamp |-> now]
    IN  /\ messages' = Append(messages, errorMessage)
        /\ requests' = [requests EXCEPT
              ![i].flow = "Failed",
              ![i].turns = Append(requests[i].turns, Len(messages) + 1)]

\* the catch block
catch(i) ==
    LET errorMessage == [id |-> now, sender |-> "ai", text |-> ErrorText,
                         agentType |-> "DEV", timestamp |-> now]
    IN  /\ messages' = Append(messages, errorMessage)
        /\ requests' = [requests EXCEPT
              ![i].flow = "Failed",
              ![i].turns = Append(requests[i].turns, Len(messages) + 1)]

\* fetch rejects: the request or its response is lost
FetchRejects ==
    \E i \in 1..Len(requests) :
       /\ requests[i].flow = "AwaitingReply"
       /\ catch(i)
       /\ UNCHANGED <<inputMessage, selectedAgent, docs, activeTab, selectedDoc, now>>
       /\ UNCHANGED promptVars

\* a handler that returns on a response that is not OK, showing nothing:
\* if (!response.ok) return
ReceiveNotOkSilent ==
    \E i \in 1..Len(requests) :
       /\ requests[i].flow = "AwaitingReply"
       /\ requests[i].response # NoResponse
       /\ ~requests[i].response.ok
       /\ requests' = [requests EXCEPT ![i].flow = "Failed"]
       /\ UNCHANGED <<messages, inputMessage, selectedAgent, docs, activeTab, selectedDoc, now>>
       /\ UNCHANGED promptVars

\* if (!response.ok) throw new Error(...)
ReceiveNotOk ==
    \E i \in 1..Len(requests) :
       /\ requests[i].flow = "AwaitingReply"
       /\ requests[i].response # NoResponse
       /\ ~requests[i].response.ok
       /\ catch(i)
       /\ UNCHANGED <<inputMessage, selectedAgent, docs, activeTab, selectedDoc, now>>
       /\ UNCHANGED promptVars

(***************************************************************************)
(* Navigation (App.tsx:437, 469, 593) and the clock                        *)
(***************************************************************************)
\* setActiveTab(item.id)
SetActiveTab ==
    /\ \E t \in Tabs : t # activeTab /\ activeTab' = t
    /\ UNCHANGED <<messages, inputMessage, selectedAgent, docs, selectedDoc, now, requests>>
    /\ UNCHANGED promptVars

\* setSelectedDoc(doc), a row of the table of DocsView
SelectDoc ==
    /\ activeTab = "docs"
    /\ selectedDoc = Null
    /\ \E i \in 1..Len(docs) : selectedDoc' = docs[i]
    /\ UNCHANGED <<messages, inputMessage, selectedAgent, docs, activeTab, now, requests>>
    /\ UNCHANGED promptVars

\* onBack of DocViewer: setSelectedDoc(null)
CloseDoc ==
    /\ activeTab = "docs"
    /\ selectedDoc # Null
    /\ selectedDoc' = Null
    /\ UNCHANGED <<messages, inputMessage, selectedAgent, docs, activeTab, now, requests>>
    /\ UNCHANGED promptVars

\* time passes
Tick ==
    /\ now < StartNow + MaxTicks
    /\ now' = now + 1
    /\ UNCHANGED clientVars
    /\ UNCHANGED requests
    /\ UNCHANGED promptVars

(***************************************************************************)
(* The application                                                         *)
(***************************************************************************)
IdlePrompt ==
    /\ settings = MOCK_PROJECT_SETTINGS
    /\ agentType = "DEV"
    /\ instruction = NotCalled

Init ==
    /\ messages = INITIAL_MESSAGES
    /\ inputMessage = <<>>
    /\ selectedAgent = "DEV"
    /\ docs = INITIAL_DOCS
    /\ activeTab = "chat"
    /\ selectedDoc = Null
    /\ now = StartNow
    /\ requests = <<>>
    /\ IdlePrompt

\* the chat: the user, the server and the clock
NextChat ==
    \/ TypeInput
    \/ SelectAgent
    \/ HandleSendBlank
    \/ HandleSendMessage
    \/ ChatRouteReply
    \/ ChatRouteError
    \/ ReceiveReply
    \/ FetchRejects
    \/ ReceiveNotOk
    \/ Tick

\* the document store and the navigation
NextDocs ==
    \/ \E i \in 1..Len(messages) : SaveToDocs(i)
    \/ SetActiveTab
    \/ SelectDoc
    \/ CloseDoc

Next == NextChat \/ NextDocs

Spec == Init /\ [][Next]_vars

SpecChat == Init /\ [][NextChat]_vars

\* the chat when every call of the backend completes or fails: the route
\* answers or the fetch rejects, and the event loop resumes a handler whose
\* awaited promise has settled
SpecChatLive ==
    /\ SpecChat
    /\ WF_vars(ChatRouteReply \/ ChatRouteError \/ FetchRejects)
    /\ WF_vars(ReceiveReply)
    /\ WF_vars(ReceiveNotOk)

\* the document store and the navigation, beside the chat with the agent
\* that is selected when the page is loaded
NextStore ==
    \/ NextDocs
    \/ TypeInput
    \/ HandleSendBlank
    \/ HandleSendMessage
    \/ ChatRouteReply
    \/ ChatRouteError
    \/ ReceiveReply
    \/ FetchRejects
    \/ ReceiveNotOk
    \/ Tick

SpecStore == Init /\ [][NextStore]_vars

(***************************************************************************)
(* The chat, entered after an earlier conversation                         *)
(***************************************************************************)
\* the conversation after k sends that were each answered by the DEV agent,
\* the clock ticking between the events
RECURSIVE PriorConversation(_)
PriorConversation(k) ==
    IF k = 0 THEN INITIAL_MESSAGES
    ELSE PriorConversation(k - 1) \o
         << [id |-> PageLoad + 3 * k, sender |-> "user",
             text |-> <<"h", "i">>, timestamp |-> PageLoad + 3 * k],
            [id |-> PageLoad + 3 * k + 2, sender |-> "ai",
             text |-> <<"o", "k">>, agentType |-> "DEV",
             timestamp |-> PageLoad + 3 * k + 1] >>

InitHistory ==
    /\ \E k \in 0..MaxPrior : messages = PriorConversation(k)
    /\ inputMessage = <<>>
    /\ selectedAgent = "DEV"
    /\ docs = INITIAL_DOCS
    /\ activeTab = "chat"
    /\ selectedDoc = Null
    /\ now = StartNow
    /\ requests = <<>>
    /\ IdlePrompt

SpecHistory == InitHistory /\ [][NextChat]_vars

(***************************************************************************)
(* saveToDocs on an arbitrary reply                                        *)
(***************************************************************************)
\* the pieces the enumerated reply texts are made of
Pieces == { <<"#">>, <<"-">>, <<"1">>, <<".">>, <<" ">>, <<NL>>, <<"a">>, ModeTag }

RECURSIVE Flatten(_)
Flatten(ps) == IF ps = <<>> THEN <<>> ELSE Head(ps) \o Flatten(Tail(ps))

ReplyTextsOfPieces ==
    UNION { { Flatten(ps) : ps \in [1..n -> Pieces] } : n \in 0..MaxPieces }

\* the conversation after one send that the backend answered with text
ConversationWithReply(text) ==
    INITIAL_MESSAGES \o
    << [id |-> PageLoad + 3, sender |-> "user",
        text |-> <<"h", "i">>, timestamp |-> PageLoad + 3],
       [id |-> PageLoad + 5, sender |-> "ai",
        text |-> text, agentType |-> "DEV", timestamp |-> PageLoad + 4] >>

InitParse ==
    /\ \E text \in ReplyTextsOfPieces : messages = ConversationWithReply(text)
    /\ inputMessage = <<>>
    /\ selectedAgent = "DEV"
    /\ docs = INITIAL_DOCS
    /\ activeTab = "chat"
    /\ selectedDoc = Null
    /\ now = StartNow
    /\ requests = <<>>
    /\ IdlePrompt

\* the save button of the reply
SaveReply == SaveToDocs(Len(messages))

SpecParse == InitParse /\ [][SaveReply]_vars

(***************************************************************************)
(* One call of buildSystemInstruction on an arbitrary ruleset and role     *)
(***************************************************************************)
Chars == {"a", "b"}

Strings == UNION { [1..n -> Chars] : n \in 0..MaxStrLen }

Stacks == UNION { [1..n -> Strings \ {<<>>}] : n \in 0..MaxStack }

\* a ruleset, any of whose fields can be missing
Rulesets ==
    [techStack : {Some(t) : t \in Stacks} \cup {Undefined},
     convention : {Some(t) : t \in Strings} \cup {Undefined},
     tone : {Some(t) : t \in Strings} \cup {Undefined},
     customInstructions : {Some(t) : t \in Strings} \cup {Undefined}]

\* the three agent types and some values that are none of them
Roles == AgentTypes \cup {"QA", "pm", ""}

InitPrompt ==
    /\ messages = INITIAL_MESSAGES
    /\ inputMessage = <<>>
    /\ selectedAgent = "DEV"
    /\ docs = INITIAL_DOCS
    /\ activeTab = "chat"
    /\ selectedDoc = Null
    /\ now = StartNow
    /\ requests = <<>>
    /\ settings \in Rulesets
    /\ agentType \in Roles
    /\ instruction = NotCalled

CallBuildSystemInstruction ==
    /\ instruction = NotCalled
    /\ instruction' = buildSystemInstruction(settings, agentType)
    /\ UNCHANGED <<settings, agentType, now, requests>>
    /\ UNCHANGED clientVars

SpecPrompt == InitPrompt /\ [][CallBuildSystemInstruction]_vars

(***************************************************************************)
(* Properties of buildSystemInstruction (checked under SpecPrompt)         *)
(***************************************************************************)
\* p occurs in s as a contiguous run
Occurs(p, s) ==
    \E i \in 0..(Len(s) - Len(p)) : \A j \in 1..Len(p) : s[i + j] = p[j]

\* s ends with p
EndsWith(s, p) ==
    /\ Len(s) >= Len(p)
    /\ \A j \in 1..Len(p) : s[Len(s) - Len(p) + j] = p[j]

\* the entries of a, a comma and a space between every two of them
RECURSIVE CommaSpaceJoined(_)
CommaSpaceJoined(a) ==
    IF a = <<>> THEN <<>>
    ELSE IF Len(a) = 1 THEN a[1]
    ELSE a[1] \o <<",", " ">> \o CommaSpaceJoined(Tail(a))

\* every field of the ruleset is present
WellFormed(s) ==
    s.techStack.def /\ s.convention.def /\ s.tone.def /\ s.customInstructions.def

\* C1: for a ruleset with all four fields, the returned instruction contains
\* the tech stack joined by ", ", the convention, the tone and the custom
\* instructions as verbatim substrings.
C1_RulesetEmbeddedVerbatim ==
    (instruction.state # "none" /\ WellFormed(settings)) =>
        /\ instruction.state = "returned"
        /\ Occurs(CommaSpaceJoined(settings.techStack.v), instruction.value)
        /\ Occurs(settings.convention.v, instruction.value)
        /\ Occurs(settings.tone.v, instruction.value)
        /\ Occurs(settings.customInstructions.v, instruction.value)

\* C1 witness: an instruction was returned for a ruleset with two stack
\* entries and three non-empty texts
C1_Witness ==
    /\ instruction.state = "returned"
    /\ WellFormed(settings)
    /\ Len(settings.techStack.v) = 2
    /\ settings.convention.v # <<>>
    /\ settings.tone.v # <<>>
    /\ settings.customInstructions.v # <<>>

\* C2: for a ruleset with a tech stack the call returns for every role; the
\* instruction ends with the role header followed by the directive of PM, DEV
\* or DESIGNER for these three roles and by the default directive for every
\* other role value; the four directives differ from one another.
C2_RoleDirectiveTotal ==
    (instruction.state # "none" /\ settings.techStack.def) =>
        /\ instruction.state = "returned"
        /\ agentType = "PM" =>
              EndsWith(instruction.value, RoleHeader \o PMDirective)
        /\ agentType = "DEV" =>
              EndsWith(instruction.value, RoleHeader \o DEVDirective)
        /\ agentType = "DESIGNER" =>
              EndsWith(instruction.value, RoleHeader \o DESIGNERDirective)
        /\ agentType \notin {"PM", "DEV", "DESIGNER"} =>
              EndsWith(instruction.value, RoleHeader \o DefaultDirective)
        /\ Cardinality({PMDirective, DEVDirective, DESIGNERDirective,
                        DefaultDirective}) = 4

\* C2 witness: an instruction was returned for a role that is none of the
\* three agent types
C2_Witness ==
    /\ instruction.state = "returned"
    /\ agentType \notin {"PM", "DEV", "DESIGNER"}

\* a missing field replaced by the empty value
Blank(x) == IF x.def THEN x ELSE Some(<<>>)

Blanked(s) ==
    [techStack |-> Blank(s.techStack),
     convention |-> Blank(s.convention),
     tone |-> Blank(s.tone),
     customInstructions |-> Blank(s.customInstructions)]

\* C9: the call never throws, and a ruleset with missing fields gives the
\* instruction of the same ruleset with empty strings (an empty stack) in
\* their place.
C9_MissingFieldsRenderedEmpty ==
    instruction.state # "none" =>
        /\ instruction.state = "returned"
        /\ instruction.value =
              buildSystemInstruction(Blanked(settings), agentType).value

(***************************************************************************)
(* Properties of the block parser (checked under SpecParse)                *)
(***************************************************************************)
\* the reply has been saved as a document
Saved == Len(docs) > Len(INITIAL_DOCS)

\* the text of the reply and the blocks of the document made of it
SourceText == messages[Len(messages)].text
SavedBlocks == docs[1].content.blocks

WhiteSpace == {" ", "\t", "\r"}

\* The lines of t by position: a line starts after position b, where b is 0
\* or the position of a newline, and ends before the next newline or the end
LineStarts(t) == {0} \cup {i \in 1..Len(t) : t[i] = NL}

LineEnd(t, b) ==
    CHOOSE e \in (b + 1)..(Len(t) + 1) :
        /\ e = Len(t) + 1 \/ t[e] = NL
        /\ \A j \in (b + 1)..(e - 1) : t[j] # NL

LineAt(t, b) == SubSeq(t, b + 1, LineEnd(t, b) - 1)

\* the lines that hold a character other than white space
SurvivingStarts(t) ==
    {b \in LineStarts(t) : \E j \in 1..Len(LineAt(t, b)) : LineAt(t, b)[j] \notin WhiteSpace}

\* the k-th of them
SurvivingLine(t, k) ==
    LineAt(t, CHOOSE b \in SurvivingStarts(t) :
                  Cardinality({c \in SurvivingStarts(t) : c < b}) = k - 1)

NotMarkerOrSpace(c) == c \notin WhiteSpace \cup {"#"}

\* a line without its '#' characters and white space
Squeezed(l) == SelectSeq(l, NotMarkerOrSpace)

\* C5: the document has exactly one block per line of the text that is not
\* blank, in the order of the lines, each block made of the characters of its
\* own line; blank lines give no block, so a text of blank lines only gives
\* the empty sequence.
C5_OneBlockPerSurvivingLine ==
    Saved =>
        /\ Len(SavedBlocks) = Cardinality(SurvivingStarts(SourceText))
        /\ \A k \in 1..Len(SavedBlocks) :
              Squeezed(SavedBlocks[k].content) = Squeezed(SurvivingLine(SourceText, k))

\* C5 witness: a saved text of at least two surviving lines and at least one
\* blank line
C5_Witness ==
    /\ Saved
    /\ Len(SavedBlocks) >= 2
    /\ Cardinality(LineStarts(SourceText)) > Cardinality(SurvivingStarts(SourceText))

HasHeadingTrigger(l) == l[1] = "#" \/ Occurs(<<"mo", "deu", "]">>, l)

HasListTrigger(l) ==
    \/ l[1] = "-"
    \/ /\ Len(l) >= 2
       /\ l[1] \in {"0", "1", "2", "3", "4", "5", "6", "7", "8", "9"}
       /\ l[2] = "."

\* C6: the kind of a block is heading if its line starts with '#' or contains
\* the mode tag, otherwise list if the line starts with '-' or with one digit
\* and a period, otherwise paragraph; a line with both triggers is a heading,
\* and no block is of kind code.
C6_KindByPrecedence ==
    Saved =>
        \A k \in 1..Len(SavedBlocks) :
            LET l == SurvivingLine(SourceText, k) IN
            /\ SavedBlocks[k].type =
                  IF HasHeadingTrigger(l) THEN "heading"
                  ELSE IF HasListTrigger(l) THEN "list"
                  ELSE "paragraph"
            /\ SavedBlocks[k].type # "code"

\* C6 witness: a saved line with both a heading and a list trigger
C6_Witness ==
    /\ Saved
    /\ \E k \in 1..Len(SavedBlocks) :
          /\ HasHeadingTrigger(SurvivingLine(SourceText, k))
          /\ HasListTrigger(SurvivingLine(SourceText, k))

\* a line without its leading run of '#'
RECURSIVE WithoutLeadingMarker(_)
WithoutLeadingMarker(l) ==
    IF l # <<>> /\ l[1] = "#" THEN WithoutLeadingMarker(Tail(l)) ELSE l

\* a line without the white space at its two ends
Trimmed(l) ==
    LET inked == {j \in 1..Len(l) : l[j] \notin WhiteSpace}
    IN  IF inked = {} THEN <<>>
        ELSE SubSeq(l, CHOOSE j \in inked : \A m \in inked : j <= m,
                       CHOOSE j \in inked : \A m \in inked : j >= m)

\* C7: the content of a heading block is its line without the leading run of
\* '#' characters, trimmed; the content of a list or paragraph block is its
\* line unmodified.
C7_HeadingContentDropsLeadingMarker ==
    Saved =>
        \A k \in 1..Len(SavedBlocks) :
            LET l == SurvivingLine(SourceText, k) IN
            SavedBlocks[k].content =
                IF SavedBlocks[k].type = "heading"
                THEN Trimmed(WithoutLeadingMarker(l))
                ELSE l

\* the contents of the blocks, a newline between every two of them
RECURSIVE JoinedContents(_)
JoinedContents(bs) ==
    IF bs = <<>> THEN <<>>
    ELSE IF Len(bs) = 1 THEN bs[1].content
    ELSE bs[1].content \o <<NL>> \o JoinedContents(Tail(bs))

\* the blocks of the document parsed again
Reparsed == jsonBlocks(JoinedContents(SavedBlocks))

\* C8 as stated: parsing the joined contents of the blocks gives the same
\* blocks for every text.
C8_ReparseGivesSameBlocks == Saved => Reparsed = SavedBlocks

HeadingsTagged ==
    \A k \in 1..Len(SavedBlocks) :
        SavedBlocks[k].type = "heading" =>
            Occurs(<<"mo", "deu", "]">>, SavedBlocks[k].content)

\* C8 as amended: parsing the joined contents of the blocks gives the same
\* blocks exactly when every heading block holds the mode tag in its content.
C8_ReparseSameIffHeadingsTagged ==
    Saved => ((Reparsed = SavedBlocks) <=> HeadingsTagged)

\* C8 witness: a saved document with a heading, all of whose headings hold
\* the mode tag, one of them from a line that also has a '#'
C8_Witness ==
    /\ Saved
    /\ HeadingsTagged
    /\ \E k \in 1..Len(SavedBlocks) :
          /\ SavedBlocks[k].type = "heading"
          /\ Occurs(<<"#">>, SurvivingLine(SourceText, k))

(***************************************************************************)
(* Properties of the chat (checked under SpecChat and SpecHistory)         *)
(***************************************************************************)
\* the requests whose history has been handed to the generation backend
Handed == {i \in 1..Len(requests) : requests[i].chat.started}

C4_HistoryEntriesAreRoleAndText ==
    \A i \in Handed :
        LET h == requests[i].chat.history IN
        \A j \in 1..Len(h) :
            /\ DOMAIN h[j] = {"role", "text"}
            /\ h[j].text = messages[j].text
            /\ h[j].role = IF messages[j].sender = "user" THEN "user" ELSE "model"

\* the requests whose flow ended in Failed
FailedRequests == {i \in 1..Len(requests) : requests[i].flow = "Failed"}

\* the diagnostic turns of the conversation
DiagnosticTurns == {j \in 1..Len(messages) : messages[j].text = ErrorText}

\* C10: a send whose request failed has issued one request and appended one
\* turn, an agent turn with the diagnostic message; the conversation holds one
\* diagnostic turn per failed send; and once a send is Failed nothing of it
\* changes again: no other request, no other turn.
C10_FailedOnceAndTerminal ==
    /\ [](\A i \in FailedRequests :
             /\ requests[i].fetches = 1
             /\ Len(requests[i].turns) = 1
             /\ requests[i].turns[1] \in DiagnosticTurns
             /\ messages[requests[i].turns[1]].sender = "ai")
    /\ [](Cardinality(DiagnosticTurns) = Cardinality(FailedRequests))
    /\ [][\A i \in FailedRequests : requests'[i] = requests[i]]_vars

\* C10 witness: a send failed on a response that is not OK, another on a
\* rejected fetch
C10_Witness ==
    \E i, k \in FailedRequests :
        /\ requests[i].response = ErrorResponse
        /\ requests[k].response = NoResponse

\* the requests that were sent and whose handler is still awaiting
InFlight == {i \in 1..Len(requests) : requests[i].flow = "AwaitingReply"}

\* C11: at every moment at most one request of the conversation is in flight;
\* a send made while an earlier request is awaiting its reply is not sent
\* beside it.
C11_AtMostOneInFlight == Cardinality(InFlight) <= 1

\* C12: the turns of the conversation have pairwise distinct ids, whatever
\* the order of sends, replies and failures and whether or not the clock
\* moved between them.
C12_TurnIdsDistinct ==
    \A j, k \in 1..Len(messages) :
        j # k => messages[j].id # messages[k].id

\* C13: a step leaves the conversation as it is or adds one turn at its end;
\* the turns that were there stay at their positions, unchanged.
C13_ConversationAppendOnly ==
    [][\/ messages' = messages
       \/ /\ Len(messages') = Len(messages) + 1
          /\ \A j \in 1..Len(messages) : messages'[j] = messages[j]]_vars

\* C13 witness: two requests have completed, the second of them sent while
\* the first was awaiting its reply, one with a reply and one with the
\* diagnostic
C13_Witness ==
    \E i, k \in 1..Len(requests) :
        /\ i < k
        /\ requests[i].flow # "AwaitingReply"
        /\ requests[k].flow # "AwaitingReply"
        /\ requests[i].flow # requests[k].flow
        /\ requests[k].userTurn < requests[i].turns[1]
        /\ Len(messages) = Len(INITIAL_MESSAGES) + 4

(***************************************************************************)
(* Properties of the document store (checked under SpecStore)              *)
(***************************************************************************)
\* C14: the documents of the store have pairwise distinct ids after any
\* number of saves from the initial list.
C14_DocIdsDistinct ==
    \A j, k \in 1..Len(docs) :
        j # k => docs[j].id # docs[k].id

\* C14 witness: two documents have been saved, and the id of each is the
\* number of documents there were before it plus one
C14_Witness ==
    /\ Len(docs) = Len(INITIAL_DOCS) + 2
    /\ docs[1].id = Len(INITIAL_DOCS) + 2
    /\ docs[2].id = Len(INITIAL_DOCS) + 1

\* a sequence without its p-th element
Without(seq, p) == SubSeq(seq, 1, p - 1) \o SubSeq(seq, p + 1, Len(seq))

\* C15: a step leaves the store as it is or adds one document to it, and
\* the documents that were there are all still there, in their order, with
\* the id, title, type, date and blocks they had; this holds for saves,
\* sends, replies, failures, tab changes and selection changes.
C15_SaveAddsOneKeepsRest ==
    [][\/ docs' = docs
       \/ /\ Len(docs') = Len(docs) + 1
          /\ \E p \in 1..Len(docs') : Without(docs', p) = docs]_vars

\* C15 witness: two documents were saved from two different turns, a reply
\* among them, and the viewer of the second was closed afterwards
C15_Witness ==
    /\ Len(docs) = Len(INITIAL_DOCS) + 2
    /\ docs[1].content.blocks # docs[2].content.blocks
    /\ selectedDoc = Null
    /\ activeTab # "docs"

(***************************************************************************)
(* Properties of the turns (checked under SpecChat and SpecChatLive)       *)
(***************************************************************************)
\* C16: a turn of the conversation has an agentType exactly when its sender
\* is the agent: no turn of the user has one, every reply and every
\* diagnostic turn has one, and it is one of the three agent types.
C16_AgentTypeIffAgentTurn ==
    \A j \in 1..Len(messages) :
        /\ ("agentType" \in DOMAIN messages[j]) <=> (messages[j].sender = "ai")
        /\ messages[j].sender = "ai" => messages[j].agentType \in AgentTypes

\* C16 witness: the conversation holds a turn of the user, a reply and a
\* diagnostic turn, the reply by an agent other than the one of the
\* diagnostic
C16_Witness ==
    /\ \E j \in 1..Len(messages) : messages[j].sender = "user"
    /\ \E j \in DiagnosticTurns : messages[j].agentType = "DEV"
    /\ \E i \in 1..Len(requests) :
          /\ requests[i].flow = "Replied"
          /\ messages[requests[i].turns[1]].agentType # "DEV"

UserTurns == {j \in 1..Len(messages) : messages[j].sender = "user"}
AgentTurns == {j \in 1..Len(messages) : messages[j].sender = "ai"}
Settled == {i \in 1..Len(requests) : requests[i].flow # "AwaitingReply"}

\* C17: a send with an input that is not blank appends one turn of the user
\* with that input, at once; when its call of the backend has completed or
\* failed, which it eventually has, the send has appended one turn of the
\* agent, the reply or the diagnostic, and before that none; a step taken
\* with a blank input issues no request and appends no turn of the user.
C17_OneUserTurnThenOneAgentTurn ==
    /\ [][Len(requests') = Len(requests) + 1 =>
             /\ trim(inputMessage) # <<>>
             /\ Len(messages') = Len(messages) + 1
             /\ SubSeq(messages', 1, Len(messages)) = messages
             /\ messages'[Len(messages')].sender = "user"
             /\ messages'[Len(messages')].text = inputMessage]_vars
    /\ [](\A i \in 1..Len(requests) :
             LET r == requests[i] IN
             /\ r.userTurn \in UserTurns
             /\ messages[r.userTurn].text = r.body.message
             /\ r.flow = "AwaitingReply" => r.turns = <<>>
             /\ r.flow # "AwaitingReply" =>
                   /\ Len(r.turns) = 1
                   /\ r.turns[1] \in AgentTurns
                   /\ r.turns[1] > r.userTurn
                   /\ messages[r.turns[1]].text =
                         IF r.flow = "Replied" THEN r.response.data.reply
                         ELSE ErrorText)
    /\ [](/\ Cardinality(UserTurns) = Len(requests)
          /\ Cardinality(AgentTurns) = Len(INITIAL_MESSAGES) + Cardinality(Settled))
    /\ \A i \in 1..MaxSends :
          (Len(requests) >= i) ~> (Len(requests) >= i /\ i \in Settled)
    /\ [][trim(inputMessage) = <<>> =>
             /\ Len(requests') = Len(requests)
             /\ \/ messages' = messages
                \/ messages'[Len(messages')].sender = "ai"]_vars

\* C17 witness: two sends have each got their one turn of the agent, one the
\* reply and one the diagnostic, and the input is now white space only
C17_Witness ==
    /\ Len(requests) = 2
    /\ requests[1].flow = "Replied"
    /\ requests[2].flow = "Failed"
    /\ Len(messages) = Len(INITIAL_MESSAGES) + 4
    /\ inputMessage = <<" ">>

====
